---- MODULE Spec2Model ----
(***************************************************************************)
(* A model of use-db-state: the useDbState hook (src/useDbState.js), its   *)
(* subscription registry (src/utils/subscriptions.js) and the key remover  *)
(* (src/useDbKeyRemover.js).                                               *)
(*                                                                         *)
(* One step of the model is one JavaScript task: a hook's first render     *)
(* with its effect, a setValue call, a debounce timer firing, an IndexedDB *)
(* request's onsuccess / onerror handler with the promise reactions that   *)
(* follow it, an effect cleanup.  The storage engine behind getDbInstance  *)
(* is not part of the model: a request either succeeds or fails, and a     *)
(* transaction takes effect at the instant its request handler runs.       *)
(***************************************************************************)
EXTENDS Integers, Sequences, FiniteSets, TLC

\* ------------------------------------------------------------------ bounds
MaxSets == 2       \* setValue calls in one behaviour
MaxRare == 1       \* rare events in one behaviour: a failed request, an effect re-run, a removeDbKey
MaxNum == 3        \* the largest number an updater may produce
DebounceTicks == 2 \* options.debounceTime, in clock ticks

\* ------------------------------------------------------------------ values
\* A JavaScript value: undefined, a number, or an object {a: 1, b: 2} whose
\* keys were inserted in the order ks.
Undefined == [t |-> "undefined", n |-> 0, ks |-> <<>>]
Num(i) == [t |-> "number", n |-> i, ks |-> <<>>]
Obj(order) == [t |-> "object", n |-> 0, ks |-> order]
ObjAB == Obj(<<"a", "b">>)
ObjBA == Obj(<<"b", "a">>)

NumText == <<"1", "2", "3", "4", "5", "6", "7", "8", "9">>
FieldText == [a |-> "1", b |-> "2"]

RECURSIVE Members(_)
Members(order) ==
    IF order = <<>> THEN <<>>
    ELSE (IF Len(order) > 1 THEN Members(SubSeq(order, 1, Len(order) - 1)) \o <<",">>
          ELSE <<>>)
         \o <<order[Len(order)], ":", FieldText[order[Len(order)]]>>

\* JSON.stringify: undefined for undefined, the digits of a number, and an
\* object's members in insertion order.
Stringify(v) ==
    CASE v.t = "undefined" -> <<"undefined">>
      [] v.t = "number" -> <<NumText[v.n]>>
      [] OTHER -> <<"{">> \o Members(v.ks) \o <<"}">>

\* setValue's comparison of the resolved value with previousValueRef.current.
SameText(x, y) == Stringify(x) = Stringify(y)

\* a ?? b
Coalesce(a, b) == IF a = Undefined THEN b ELSE a

\* ------------------------------------------------------------------ universe
Sessions == {"A", "B"}
Keys == {"k1", "k2"}
Namespaces == {"n1", "n2"}
Cells == Namespaces \X Keys

Numbers == {Num(1), Num(2)}
Objects == {ObjAB, ObjBA}
Updaters == {"inc"}
Defaults == {Undefined, Num(1)}
Stored == {Undefined, Num(2)}

\* The updater prev => prev + 1, on the numbers the model holds.
CanApply(u, prev) == prev.t = "number" /\ prev.n < MaxNum
Apply(u, prev) == Num(prev.n + 1)

\* A pending timeout of a debounced function: the argument of the last call,
\* the ticks left, and who called it ("call": setValue, "default": the load).
NoTimer == [val |-> Undefined, left |-> -1, src |-> "none"]
NoTask == [id |-> 0, ns |-> "n1", key |-> "k1", val |-> Undefined, from |-> "A"]
NoIncs == [base |-> Undefined, n |-> 0]
MaxTasks == MaxSets + Cardinality(Sessions)
TaskIds == 1..MaxTasks

VARIABLES
    skey, sns, sdef,      \* each hook instance's key, namespace (dbName, storeName) and defaultValue
    clock,                \* "off": a timer may fire at any time; "on": after DebounceTicks ticks
    lits,                 \* the literal values the callers pass to setValue
    faulty,               \* the session whose handler may throw (its component fails to render), or "none"
    cache,                \* initialValuesCache: key -> value (Undefined: no entry)
    durable,              \* the object stores: <<namespace, key>> -> value (Undefined: no record)
    subs,                 \* subscriptions: key -> the sessions whose handler is registered
    order,                \* key -> the registered sessions in insertion order, the order in which
                          \* notify calls them (kept where a handler may throw)
    chain,                \* operationQueues: key -> the operations waiting behind the running one
    running,              \* the put operations executing against the store
    hung,                 \* the put operations whose promise never settles: notify threw before resolve()
    phase,                \* "none" (not rendered yet), "live", "disposed"
    local,                \* previousValueRef.current and the React state value
    didInit, isSyncing,   \* didInit.current, isSyncing.current
    mounted,              \* the current effect closure's mounted flag
    load,                 \* "idle", "pending": the getDbValue of the current effect closure
    orphans,              \* getDbValue calls of effect closures already cleaned up by a re-run
    timer,                \* the debounced function's pending timeout: [val, left] or NoTimer
    \* history
    nextId,               \* the next put operation's number, in the order the timers fired
    outcome,              \* id -> "none", "waiting", "running", "ok", "failed"
    notifyCount,          \* id -> notify calls made for that put
    startLog,             \* key -> the ids of the puts started, in start order
    delivered,            \* the ids of the puts whose notification some handler applied
    defaultPuts,          \* cell -> puts of a default handed to setDbValue
    missed,               \* session -> what happened after its disposal: "notify" for its key, its "load"
    loadFailed,           \* session -> its getDbValue was rejected
    removed,              \* cell -> removeDbKey deleted it and no put has written it since
    sinceCall,            \* session -> ticks since its last setValue call (clock on)
    sinceChange,          \* session -> ticks since its last scheduled setValue call (clock on)
    lastChange,           \* session -> the value of its last scheduled setValue call (clock on)
    chgPuts,              \* session -> timers fired since its last scheduled setValue call (clock on)
    lastPut,              \* session -> the value its timer last handed to setDbValue (clock on)
    burstCalls,           \* session -> scheduled setValue calls, each less than DebounceTicks after the one before (clock on)
    lastFailed,           \* the put whose request failed last, or NoTask
    incs,                 \* session -> its run of updater calls: the value before the run and the calls in it
    loadWrite,            \* session -> the value it set while its load was pending, no setValue on the key since
    nChanged,             \* setValue calls that changed the caller's value
    afterFail,            \* the ids of the puts that started when the put before them failed
    latePuts,             \* the ids of the puts whose timer fired after their session's disposal
    nSets, nRare

cfgVars == <<skey, sns, sdef, clock, lits, faulty>>
sharedVars == <<cache, durable, subs, order, chain, running>>
sessVars == <<phase, local, didInit, isSyncing, mounted, load, orphans, timer>>
histVars == <<nextId, outcome, notifyCount, startLog, delivered, defaultPuts, missed,
              loadFailed, removed, sinceCall, sinceChange, lastChange, chgPuts, lastPut, burstCalls,
              lastFailed, incs, loadWrite, nChanged, afterFail, latePuts, nSets, nRare>>
vars == <<cfgVars, sharedVars, hung, sessVars, histVars>>


Cell(s) == <<sns[s], skey[s]>>
Ready(s) == didInit[s] /\ ~isSyncing[s]

\* ------------------------------------------------------------------ init
\* Session A uses key k1 of namespace n1, session B one of the cells bCells.
InitCommon(bCells) ==
    /\ skey \in [Sessions -> Keys]
    /\ sns \in [Sessions -> Namespaces]
    /\ Cell("A") = <<"n1", "k1">>
    /\ Cell("B") \in bCells
    /\ sdef \in [Sessions -> Defaults]
    /\ cache = [k \in Keys |-> Undefined]
    /\ durable \in [Cells -> Stored]
    /\ \A c \in Cells : c # <<"n1", "k1">> => durable[c] = Undefined
    /\ subs = [k \in Keys |-> {}]
    /\ order = [k \in Keys |-> <<>>]
    /\ hung = {}
    /\ chain = [k \in Keys |-> <<>>]
    /\ running = {}
    /\ phase = [s \in Sessions |-> "none"]
    /\ local = [s \in Sessions |-> Undefined]
    /\ didInit = [s \in Sessions |-> FALSE]
    /\ isSyncing = [s \in Sessions |-> FALSE]
    /\ mounted = [s \in Sessions |-> FALSE]
    /\ load = [s \in Sessions |-> "idle"]
    /\ orphans = [s \in Sessions |-> 0]
    /\ timer = [s \in Sessions |-> NoTimer]
    /\ nextId = 1
    /\ outcome = [i \in TaskIds |-> "none"]
    /\ notifyCount = [i \in TaskIds |-> 0]
    /\ startLog = [k \in Keys |-> <<>>]
    /\ delivered = {}
    /\ defaultPuts = [c \in Cells |-> 0]
    /\ missed = [s \in Sessions |-> {}]
    /\ loadFailed = [s \in Sessions |-> FALSE]
    /\ removed = [c \in Cells |-> FALSE]
    /\ sinceCall = [s \in Sessions |-> DebounceTicks]
    /\ sinceChange = [s \in Sessions |-> DebounceTicks]
    /\ lastChange = [s \in Sessions |-> Undefined]
    /\ chgPuts = [s \in Sessions |-> 0]
    /\ lastPut = [s \in Sessions |-> Undefined]
    /\ burstCalls = [s \in Sessions |-> 0]
    /\ lastFailed = NoTask
    /\ incs = [s \in Sessions |-> NoIncs]
    /\ loadWrite = [s \in Sessions |-> Undefined]
    /\ nChanged = 0
    /\ afterFail = {}
    /\ latePuts = {}
    /\ nSets = 0 /\ nRare = 0

\* Two hooks on one key or on two keys of one namespace, numbers as values.
Init == InitCommon({<<"n1", "k1">>, <<"n1", "k2">>}) /\ clock = "off" /\ lits = Numbers /\ faulty = "none"

\* Two hooks on one key, objects as values.
InitObj == InitCommon({<<"n1", "k1">>}) /\ clock = "off" /\ lits = Objects /\ faulty = "none"

\* Two hooks on one key, with the clock that times the debounce.
InitTimed == InitCommon({<<"n1", "k1">>}) /\ clock = "on" /\ lits = Numbers /\ faulty = "none"

\* Two hooks on the same key string in two namespaces.
InitNs == InitCommon({<<"n2", "k1">>}) /\ clock = "off" /\ lits = Numbers /\ faulty = "none"

\* Two hooks on one key; the handler of one of them may throw.
InitThrow == InitCommon({<<"n1", "k1">>}) /\ clock = "off" /\ lits = Numbers /\ faulty = "A"

\* The same with no default and nothing stored.
InitLive == InitThrow /\ sdef = [s \in Sessions |-> Undefined] /\ durable = [c \in Cells |-> Undefined]

\* ------------------------------------------------------------------ registry
\* subscribe(key, callback)
Subscribe(reg, k, s) == [reg EXCEPT ![k] = @ \cup {s}]

\* unsubscribe(key, callback)
Unsubscribe(reg, k, s) == [reg EXCEPT ![k] = @ \ {s}]

\* The Set of a key's callbacks iterates in insertion order: add appends a
\* callback that is not in it, delete removes it.
Joined(ord, k, s) ==
    IF faulty = "none" \/ \E i \in DOMAIN ord[k] : ord[k][i] = s THEN ord
    ELSE [ord EXCEPT ![k] = Append(@, s)]
Left(ord, k, s) == [ord EXCEPT ![k] = SelectSeq(@, LAMBDA x : x # s)]

\* The sessions whose handler notify(key, value) calls and that apply the value:
\* the registered callbacks whose closure is still mounted.
Appliers(k) == {s \in subs[k] : mounted[s]}

\* The histories declared after the clock's are kept in the scenarios without a
\* clock.
Kept(new, old) == IF clock = "off" THEN new ELSE old

\* ------------------------------------------------------------------ queue
Busy(k) == chain[k] # <<>> \/ \E r \in running \cup hung : r.key = k

EnqueueNow(t) ==
    /\ afterFail' = afterFail
    /\ hung' = hung
    /\ chain' = chain
    /\ running' = running \cup {t}
    /\ startLog' = [startLog EXCEPT ![t.key] = Append(@, t.id)]
    /\ outcome' = [outcome EXCEPT ![t.id] = "running"]

\* OperationQueue.enqueue: the operation runs once the queue's promise, which
\* settles with the operation enqueued before it, has settled.
Enqueue(t) ==
    /\ afterFail' = afterFail
    /\ hung' = hung
    /\ IF Busy(t.key)
       THEN /\ chain' = [chain EXCEPT ![t.key] = Append(@, t)]
            /\ running' = running
            /\ startLog' = startLog
            /\ outcome' = [outcome EXCEPT ![t.id] = "waiting"]
       ELSE /\ chain' = chain
            /\ running' = running \cup {t}
            /\ startLog' = [startLog EXCEPT ![t.key] = Append(@, t.id)]
            /\ outcome' = [outcome EXCEPT ![t.id] = "running"]

\* A rejected operation leaves the queue's promise rejected: the operations
\* behind it never start.
SettlePoisoned(t, how) ==
    /\ hung' = hung
    /\ IF chain[t.key] # <<>> /\ how = "ok"
       THEN LET next == Head(chain[t.key]) IN
            /\ chain' = [chain EXCEPT ![t.key] = Tail(@)]
            /\ running' = (running \ {t}) \cup {next}
            /\ startLog' = [startLog EXCEPT ![t.key] = Append(@, next.id)]
            /\ outcome' = [outcome EXCEPT ![t.id] = how, ![next.id] = "running"]
            /\ afterFail' = afterFail
       ELSE /\ chain' = chain
            /\ running' = running \ {t}
            /\ startLog' = startLog
            /\ outcome' = [outcome EXCEPT ![t.id] = how]
            /\ afterFail' = afterFail

\* The operation's promise settles (resolve or reject): the next operation of
\* the chain, if any, starts.
Settle(t, how) ==
    /\ hung' = hung
    /\ IF chain[t.key] # <<>>
       THEN LET next == Head(chain[t.key]) IN
            /\ chain' = [chain EXCEPT ![t.key] = Tail(@)]
            /\ running' = (running \ {t}) \cup {next}
            /\ startLog' = [startLog EXCEPT ![t.key] = Append(@, next.id)]
            /\ outcome' = [outcome EXCEPT ![t.id] = how, ![next.id] = "running"]
            /\ afterFail' = Kept(IF how = "failed" THEN afterFail \cup {next.id} ELSE afterFail,
                                  afterFail)
       ELSE /\ afterFail' = afterFail
            /\ chain' = chain
            /\ running' = running \ {t}
            /\ startLog' = startLog
            /\ outcome' = [outcome EXCEPT ![t.id] = how]

\* ------------------------------------------------------------------ debounce
DebounceKeepsDeadline(s, v, who) ==
    timer' = [timer EXCEPT ![s] =
                [val |-> v,
                 left |-> IF timer[s] # NoTimer THEN timer[s].left
                          ELSE IF clock = "on" THEN DebounceTicks ELSE 0,
                 src |-> who]]

\* The debounced function: clearTimeout, then setTimeout(fn(value), delay).
Debounce(s, v, who) ==
    timer' = [timer EXCEPT ![s] =
                [val |-> v, left |-> IF clock = "on" THEN DebounceTicks ELSE 0, src |-> who]]

timedVars == <<sinceCall, sinceChange, lastChange, chgPuts, lastPut, burstCalls>>
queueVars == <<chain, running, hung, startLog, outcome, afterFail>>
notifyVars == <<notifyCount, delivered>>
counters == <<nSets, nRare>>
setVars == <<loadWrite, nChanged>>

\* ------------------------------------------------------------------ the hook
\* useDbState's first render and the first run of its effect: the cache is
\* seeded with the default, the state starts from the cache, the load is
\* issued and the handler subscribed.
Acquire(s) ==
    /\ phase[s] = "none"
    /\ LET k == skey[s]
           seeded == IF sdef[s] # Undefined /\ cache[k] = Undefined THEN sdef[s] ELSE cache[k]
       IN /\ cache' = [cache EXCEPT ![k] = seeded]
          /\ local' = [local EXCEPT ![s] = Coalesce(seeded, sdef[s])]
          /\ subs' = Subscribe(subs, k, s)
          /\ order' = Joined(order, k, s)
    /\ phase' = [phase EXCEPT ![s] = "live"]
    /\ mounted' = [mounted EXCEPT ![s] = TRUE]
    /\ isSyncing' = [isSyncing EXCEPT ![s] = TRUE]
    /\ load' = [load EXCEPT ![s] = "pending"]
    /\ UNCHANGED <<cfgVars, durable, queueVars, didInit, orphans, timer, nextId, notifyVars,
                   defaultPuts, missed, loadFailed, removed, timedVars, counters,
                   lastFailed, incs, setVars, latePuts>>

\* getDbValue's request.onsuccess, then the effect's .then and .finally.
LoadSuccess(s) ==
    /\ load[s] = "pending"
    /\ LET result == durable[Cell(s)] IN
       /\ cache' = IF result # Undefined THEN [cache EXCEPT ![skey[s]] = result] ELSE cache
       /\ IF mounted[s]
          THEN /\ local' = IF result # Undefined THEN [local EXCEPT ![s] = result] ELSE local
               /\ IF result = Undefined /\ sdef[s] # Undefined
                  THEN Debounce(s, sdef[s], "default")
                  ELSE timer' = timer
               /\ didInit' = [didInit EXCEPT ![s] = TRUE]
               /\ isSyncing' = [isSyncing EXCEPT ![s] = FALSE]
          ELSE UNCHANGED <<local, timer, didInit, isSyncing>>
    /\ incs' = IF mounted[s] THEN [incs EXCEPT ![s] = NoIncs] ELSE incs
    /\ load' = [load EXCEPT ![s] = "idle"]
    /\ missed' = IF phase[s] = "disposed" THEN [missed EXCEPT ![s] = @ \cup {"load"}] ELSE missed
    /\ UNCHANGED <<cfgVars, durable, subs, order, queueVars, phase, mounted, orphans, nextId,
                   notifyVars, defaultPuts, loadFailed, removed, timedVars, counters,
                   lastFailed, setVars, latePuts>>

\* getDbValue's request.onerror (or getDbInstance rejecting), then the effect's
\* .catch and .finally.
LoadFail(s) ==
    /\ load[s] = "pending"
    /\ nRare < MaxRare
    /\ isSyncing' = IF mounted[s] THEN [isSyncing EXCEPT ![s] = FALSE] ELSE isSyncing
    /\ load' = [load EXCEPT ![s] = "idle"]
    /\ loadFailed' = [loadFailed EXCEPT ![s] = TRUE]
    /\ missed' = IF phase[s] = "disposed" THEN [missed EXCEPT ![s] = @ \cup {"load"}] ELSE missed
    /\ nRare' = nRare + 1
    /\ UNCHANGED <<cfgVars, sharedVars, phase, local, didInit, mounted, orphans, timer, nextId,
                   hung, outcome, startLog, afterFail, notifyVars, defaultPuts, removed, timedVars, nSets,
                   lastFailed, incs, setVars, latePuts>>

\* A getDbValue whose effect closure a re-run has cleaned up (mounted is false
\* there): only request.onsuccess's cache write is left of it.
OrphanLoadDone(s, ok) ==
    /\ orphans[s] > 0
    /\ ~ok => nRare < MaxRare
    /\ LET result == durable[Cell(s)] IN
       cache' = IF ok /\ result # Undefined THEN [cache EXCEPT ![skey[s]] = result] ELSE cache
    /\ orphans' = [orphans EXCEPT ![s] = @ - 1]
    /\ nRare' = IF ok THEN nRare ELSE nRare + 1
    /\ UNCHANGED <<cfgVars, durable, subs, order, queueVars, phase, local, didInit, isSyncing, mounted,
                   load, timer, nextId, notifyVars, defaultPuts, missed, loadFailed, removed,
                   timedVars, nSets,
                   lastFailed, incs, setVars, latePuts>>

ResolveStale(s, arg, isUpdater) ==
    IF isUpdater THEN Apply(arg, IF incs[s].n > 0 THEN incs[s].base ELSE local[s]) ELSE arg

\* setValue's argument resolved against previousValueRef.current.
Resolve(s, arg, isUpdater) == IF isUpdater THEN Apply(arg, local[s]) ELSE arg

\* A due timer's task runs before the tasks that come after it.
NoTimerDue == clock = "on" => \A s \in Sessions : timer[s].left # 0

\* setValue(newValue)
SetValue(s, arg, isUpdater) ==
    /\ phase[s] = "live"
    /\ nSets < MaxSets
    /\ NoTimerDue
    /\ isUpdater => CanApply(arg, local[s])
    /\ nSets' = nSets + 1
    /\ LET resolved == Resolve(s, arg, isUpdater)
           changed == ~SameText(resolved, local[s])
           scheduled == changed /\ didInit[s] /\ ~isSyncing[s]
       IN /\ local' = IF changed THEN [local EXCEPT ![s] = resolved] ELSE local
          /\ cache' = IF changed THEN [cache EXCEPT ![skey[s]] = resolved] ELSE cache
          /\ IF scheduled THEN Debounce(s, resolved, "call") ELSE timer' = timer
          /\ sinceCall' = IF clock = "on" THEN [sinceCall EXCEPT ![s] = 0] ELSE sinceCall
          /\ IF clock = "on" /\ scheduled
             THEN /\ sinceChange' = [sinceChange EXCEPT ![s] = 0]
                  /\ lastChange' = [lastChange EXCEPT ![s] = resolved]
                  /\ chgPuts' = [chgPuts EXCEPT ![s] = 0]
                  /\ burstCalls' = [burstCalls EXCEPT ![s] =
                                      IF sinceChange[s] < DebounceTicks THEN @ + 1 ELSE 1]
             ELSE UNCHANGED <<sinceChange, lastChange, chgPuts, burstCalls>>
          /\ nChanged' = Kept(IF changed THEN nChanged + 1 ELSE nChanged, nChanged)
          /\ loadWrite' = Kept([o \in Sessions |->
                                   IF o = s THEN (IF changed /\ load[s] = "pending" THEN resolved
                                                  ELSE Undefined)
                                   ELSE IF skey[o] = skey[s] THEN Undefined ELSE loadWrite[o]],
                               loadWrite)
          /\ incs' = Kept([incs EXCEPT ![s] =
                             IF ~isUpdater THEN NoIncs
                             ELSE IF @.n = 0 THEN [base |-> local[s], n |-> 1]
                             ELSE [@ EXCEPT !.n = @ + 1]],
                          incs)
    /\ UNCHANGED <<cfgVars, durable, subs, order, queueVars, phase, didInit, isSyncing, mounted, load,
                   orphans, nextId, notifyVars, defaultPuts, missed, loadFailed, removed,
                   lastPut, nRare,
                   lastFailed, latePuts>>

\* The debounce timeout fires: debouncedSync's function calls setDbValue, which
\* enqueues the put on the key's queue.
TimerFire(s) ==
    /\ timer[s] # NoTimer
    /\ timer[s].left = 0
    /\ Enqueue([id |-> nextId, ns |-> sns[s], key |-> skey[s], val |-> timer[s].val, from |-> s])
    /\ nextId' = nextId + 1
    /\ timer' = [timer EXCEPT ![s] = NoTimer]
    /\ latePuts' = Kept(IF phase[s] = "disposed" THEN latePuts \cup {nextId} ELSE latePuts,
                        latePuts)
    /\ defaultPuts' = IF timer[s].src = "default" THEN [defaultPuts EXCEPT ![Cell(s)] = @ + 1]
                      ELSE defaultPuts
    /\ IF clock = "on"
       THEN /\ chgPuts' = [chgPuts EXCEPT ![s] = @ + 1]
            /\ lastPut' = [lastPut EXCEPT ![s] = timer[s].val]
       ELSE UNCHANGED <<chgPuts, lastPut>>
    /\ UNCHANGED <<cfgVars, cache, durable, subs, order, phase, local, didInit, isSyncing, mounted, load,
                   orphans, notifyVars, missed, loadFailed, removed, sinceCall, sinceChange,
                   lastChange, burstCalls, counters,
                   lastFailed, incs, setVars>>

\* notify(key, value) for the put t: every handler registered for the key runs,
\* and one whose closure is mounted sets isSyncing, previousValueRef, the cache
\* and the state, and clears isSyncing.  held is the cache before the handlers.
Notify(t, held) ==
    /\ cache' = IF Appliers(t.key) # {} THEN [held EXCEPT ![t.key] = t.val] ELSE held
    /\ local' = [s \in Sessions |-> IF s \in Appliers(t.key) THEN t.val ELSE local[s]]
    /\ isSyncing' = [s \in Sessions |-> IF s \in Appliers(t.key) THEN FALSE ELSE isSyncing[s]]
    /\ notifyCount' = [notifyCount EXCEPT ![t.id] = @ + 1]
    /\ delivered' = IF Appliers(t.key) # {} THEN delivered \cup {t.id} ELSE delivered
    /\ incs' = [s \in Sessions |-> IF s \in Appliers(t.key) THEN NoIncs ELSE incs[s]]
    /\ missed' = [s \in Sessions |-> IF phase[s] = "disposed" /\ skey[s] = t.key
                                     THEN missed[s] \cup {"notify"} ELSE missed[s]]

PutSuccessResyncs(t) ==
    /\ t \in running
    /\ durable' = [durable EXCEPT ![<<t.ns, t.key>>] = t.val]
    /\ Notify(t, [cache EXCEPT ![t.key] = t.val])
    /\ timer' = [s \in Sessions |->
                   IF s \in Appliers(t.key)
                   THEN [val |-> t.val, left |-> IF clock = "on" THEN DebounceTicks ELSE 0,
                         src |-> "call"]
                   ELSE timer[s]]
    /\ removed' = [removed EXCEPT ![<<t.ns, t.key>>] = FALSE]
    /\ Settle(t, "ok")
    /\ UNCHANGED <<cfgVars, subs, order, phase, didInit, mounted, load, orphans, nextId,
                   defaultPuts, loadFailed, timedVars, counters, lastFailed, setVars, latePuts>>

\* The put's request.onsuccess: the cache is set, notify is called and the
\* operation's promise resolves.
PutSuccess(t) ==
    /\ t \in running
    /\ durable' = [durable EXCEPT ![<<t.ns, t.key>>] = t.val]
    /\ Notify(t, [cache EXCEPT ![t.key] = t.val])
    /\ removed' = [removed EXCEPT ![<<t.ns, t.key>>] = FALSE]
    /\ Settle(t, "ok")
    /\ UNCHANGED <<cfgVars, subs, order, phase, didInit, mounted, load, orphans, timer, nextId,
                   defaultPuts, loadFailed, timedVars, counters,
                   lastFailed, setVars, latePuts>>

PutFailNotifies(t) ==
    /\ t \in running
    /\ nRare < MaxRare
    /\ nRare' = nRare + 1
    /\ lastFailed' = t
    /\ Notify(t, cache)
    /\ Settle(t, "failed")
    /\ UNCHANGED <<cfgVars, durable, subs, order, phase, didInit, mounted, load, orphans, timer, nextId,
                   defaultPuts, loadFailed, removed, timedVars, nSets,
                   setVars, latePuts>>

PutFailRollsBack(t) ==
    /\ t \in running
    /\ nRare < MaxRare
    /\ nRare' = nRare + 1
    /\ lastFailed' = t
    /\ cache' = [cache EXCEPT ![t.key] = durable[<<t.ns, t.key>>]]
    /\ Settle(t, "failed")
    /\ UNCHANGED <<cfgVars, durable, subs, order, sessVars, nextId, notifyVars, defaultPuts,
                   missed, loadFailed, removed, timedVars, nSets, incs, setVars, latePuts>>

\* The put's request.onerror (or getDbInstance rejecting): the operation's
\* promise rejects and debouncedSync's .catch logs the error.
PutFail(t) ==
    /\ t \in running
    /\ nRare < MaxRare
    /\ nRare' = nRare + 1
    /\ lastFailed' = Kept(t, lastFailed)
    /\ Settle(t, "failed")
    /\ UNCHANGED <<cfgVars, cache, durable, subs, order, sessVars, nextId, notifyVars, defaultPuts,
                   missed, loadFailed, removed, timedVars, nSets,
                   incs, setVars, latePuts>>

\* The put's request.onsuccess when the faulty session's handler throws: the
\* cache is set, notify calls the handlers registered before the faulty one, the
\* faulty handler throws from its state update with isSyncing still set, the
\* handlers after it are not called and resolve() is not reached.  An exception
\* leaving a success handler makes the engine abort the transaction if it is
\* still active: committed tells whether the record was written.
PutThrows(t, committed) ==
    /\ t \in running
    /\ faulty \in Appliers(t.key)
    /\ nRare < MaxRare
    /\ nRare' = nRare + 1
    /\ LET k == t.key
           pos == CHOOSE i \in DOMAIN order[k] : order[k][i] = faulty
           before == {order[k][i] : i \in 1..(pos - 1)} \cap Appliers(k)
           called == before \cup {faulty}
       IN /\ cache' = [cache EXCEPT ![k] = t.val]
          /\ local' = [s \in Sessions |-> IF s \in called THEN t.val ELSE local[s]]
          /\ isSyncing' = [s \in Sessions |-> IF s = faulty THEN TRUE
                                               ELSE IF s \in before THEN FALSE ELSE isSyncing[s]]
          /\ incs' = [s \in Sessions |-> IF s \in called THEN NoIncs ELSE incs[s]]
    /\ durable' = IF committed THEN [durable EXCEPT ![<<t.ns, t.key>>] = t.val] ELSE durable
    /\ removed' = IF committed THEN [removed EXCEPT ![<<t.ns, t.key>>] = FALSE] ELSE removed
    /\ notifyCount' = [notifyCount EXCEPT ![t.id] = @ + 1]
    /\ delivered' = delivered \cup {t.id}
    /\ missed' = [s \in Sessions |-> IF phase[s] = "disposed" /\ skey[s] = t.key
                                     THEN missed[s] \cup {"notify"} ELSE missed[s]]
    /\ running' = running \ {t}
    /\ hung' = hung \cup {t}
    /\ outcome' = [outcome EXCEPT ![t.id] = "hung"]
    /\ UNCHANGED <<cfgVars, subs, order, chain, startLog, afterFail, phase, didInit, mounted,
                   load, orphans, timer, nextId, defaultPuts, loadFailed, timedVars, nSets,
                   lastFailed, setVars, latePuts>>

DisposeKeepsHandler(s) ==
    /\ phase[s] = "live"
    /\ phase' = [phase EXCEPT ![s] = "disposed"]
    /\ UNCHANGED <<cfgVars, sharedVars, local, didInit, isSyncing, mounted, load, orphans, timer,
                   nextId, hung, outcome, startLog, afterFail, notifyVars, defaultPuts, missed, loadFailed, removed,
                   timedVars, counters,
                   lastFailed, incs, setVars, latePuts>>

DisposeCancelsTimer(s) ==
    /\ phase[s] = "live"
    /\ phase' = [phase EXCEPT ![s] = "disposed"]
    /\ mounted' = [mounted EXCEPT ![s] = FALSE]
    /\ subs' = Unsubscribe(subs, skey[s], s)
    /\ order' = Left(order, skey[s], s)
    /\ timer' = [timer EXCEPT ![s] = NoTimer]
    /\ UNCHANGED <<cfgVars, cache, durable, queueVars, local, didInit, isSyncing, load, orphans,
                   nextId, notifyVars, defaultPuts, missed, loadFailed, removed, timedVars,
                   counters, lastFailed, incs, setVars, latePuts>>

\* The effect's cleanup at unmount: mounted is cleared and the handler
\* unsubscribed.
Dispose(s) ==
    /\ phase[s] = "live"
    /\ phase' = [phase EXCEPT ![s] = "disposed"]
    /\ mounted' = [mounted EXCEPT ![s] = FALSE]
    /\ subs' = Unsubscribe(subs, skey[s], s)
    /\ order' = Left(order, skey[s], s)
    /\ UNCHANGED <<cfgVars, cache, durable, queueVars, local, didInit, isSyncing, load, orphans,
                   timer, nextId, notifyVars, defaultPuts, missed, loadFailed, removed, timedVars,
                   counters,
                   lastFailed, incs, setVars, latePuts>>

\* A dependency of the effect changed on a re-render (a defaultValue with a new
\* identity): the cleanup runs, then the effect runs again, and does nothing
\* once didInit.current is true.
Rerun(s) ==
    /\ phase[s] = "live"
    /\ nRare < MaxRare
    /\ nRare' = nRare + 1
    /\ IF didInit[s]
       THEN /\ subs' = Unsubscribe(subs, skey[s], s)
            /\ order' = Left(order, skey[s], s)
            /\ UNCHANGED <<isSyncing, load, orphans>>
       ELSE /\ subs' = Subscribe(Unsubscribe(subs, skey[s], s), skey[s], s)
            /\ order' = Joined(Left(order, skey[s], s), skey[s], s)
            /\ isSyncing' = [isSyncing EXCEPT ![s] = TRUE]
            /\ orphans' = IF load[s] = "pending" THEN [orphans EXCEPT ![s] = @ + 1] ELSE orphans
            /\ load' = [load EXCEPT ![s] = "pending"]
    /\ UNCHANGED <<cfgVars, cache, durable, queueVars, phase, local, didInit, mounted, timer,
                   nextId, notifyVars, defaultPuts, missed, loadFailed, removed, timedVars, nSets,
                   lastFailed, incs, setVars, latePuts>>

\* removeDbKey: the delete request's onsuccess.  Nothing but the object store
\* changes; a failed delete or open only logs.
RemoveKey(c) ==
    /\ \E s \in Sessions : c = Cell(s)
    /\ nRare < MaxRare
    /\ nRare' = nRare + 1
    /\ durable' = [durable EXCEPT ![c] = Undefined]
    /\ removed' = [removed EXCEPT ![c] = TRUE]
    /\ UNCHANGED <<cfgVars, cache, subs, order, queueVars, sessVars, nextId, notifyVars, defaultPuts,
                   missed, loadFailed, timedVars, nSets,
                   lastFailed, incs, setVars, latePuts>>

\* One tick of the clock, when no timer is due.
Tick ==
    /\ clock = "on"
    /\ NoTimerDue
    /\ \E s \in Sessions : timer[s] # NoTimer \/ sinceCall[s] < DebounceTicks
    /\ timer' = [s \in Sessions |->
                   IF timer[s] # NoTimer THEN [timer[s] EXCEPT !.left = @ - 1] ELSE timer[s]]
    /\ sinceCall' = [s \in Sessions |-> IF sinceCall[s] < DebounceTicks THEN sinceCall[s] + 1
                                        ELSE sinceCall[s]]
    /\ sinceChange' = [s \in Sessions |-> IF sinceChange[s] < DebounceTicks THEN sinceChange[s] + 1
                                          ELSE sinceChange[s]]
    /\ UNCHANGED <<cfgVars, sharedVars, phase, local, didInit, isSyncing, mounted, load, orphans,
                   nextId, hung, outcome, startLog, afterFail, notifyVars, defaultPuts, missed, loadFailed, removed,
                   lastChange, chgPuts, lastPut, burstCalls, counters,
                   lastFailed, incs, setVars, latePuts>>

Next ==
    \/ \E s \in Sessions : Acquire(s)
    \/ \E s \in Sessions : LoadSuccess(s)
    \/ \E s \in Sessions : LoadFail(s)
    \/ \E s \in Sessions, ok \in BOOLEAN : OrphanLoadDone(s, ok)
    \/ \E s \in Sessions, arg \in lits : SetValue(s, arg, FALSE)
    \/ \E s \in Sessions, arg \in Updaters : SetValue(s, arg, TRUE)
    \/ \E s \in Sessions : TimerFire(s)
    \/ \E t \in running : PutSuccess(t)
    \/ \E t \in running : PutFail(t)
    \/ \E s \in Sessions : Dispose(s)
    \/ \E s \in Sessions : Rerun(s)
    \/ \E c \in Cells : RemoveKey(c)

NextTimed == Next \/ Tick
NextThrow == Next \/ \E t \in running, committed \in BOOLEAN : PutThrows(t, committed)

Spec == Init /\ [][Next]_vars
SpecObj == InitObj /\ [][Next]_vars
SpecTimed == InitTimed /\ [][NextTimed]_vars
SpecNs == InitNs /\ [][Next]_vars
SpecThrow == InitThrow /\ [][NextThrow]_vars

\* Every request handed to the store is answered: the handler of a running put,
\* onsuccess or onerror, eventually runs.
Answered == \E t \in running : PutSuccess(t) \/ PutFail(t) \/ \E c \in BOOLEAN : PutThrows(t, c)
SpecLive == InitLive /\ [][NextThrow]_vars /\ WF_vars(Answered)

\* ------------------------------------------------------------------ claims
Live(c) == {s \in Sessions : phase[s] = "live" /\ Cell(s) = c}

\* Nothing is pending for the cell's key: no debounce timer, no load, no put
\* running or waiting; and no request has failed, no effect has re-run and no
\* key has been removed.
Settled(c) ==
    /\ \A s \in Sessions : skey[s] = c[2] =>
          timer[s] = NoTimer /\ load[s] = "idle" /\ orphans[s] = 0
    /\ ~Busy(c[2])
    /\ nRare = 0

\* C1 (as claimed): once no debounce timer is pending, no storage operation is
\* in flight and every put has succeeded, all live sessions on a key hold the
\* same local value, which equals the cache entry and the durable value.
CE_C1 ==
    \A c \in Cells : Settled(c) =>
        \A s \in Live(c) : local[s] = cache[c[2]] /\ local[s] = durable[c]

\* A timer set by a setValue call fires in this step.
Fires(s) == timer[s].src = "call" /\ timer'[s] = NoTimer

\* C2 (as claimed): the put of a burst of setValue calls, each less than
\* debounceMs after the one before, occurs only after debounceMs of quiescence
\* following the last call of the burst.
CE_C2 == [][\A s \in Sessions : Fires(s) => sinceCall[s] >= DebounceTicks]_vars

\* C2 (amended): for a burst of setValue calls by a READY session, each of
\* which changes the session's value (by JSON text) and comes less than
\* debounceMs after the one before: no put occurs during the burst, the pending
\* timer holds the last call's value and its deadline is debounceMs after that
\* call; exactly one put follows the burst, carrying the last call's value.
Thm_C2 ==
    \A s \in Sessions : burstCalls[s] > 0 =>
        /\ sinceChange[s] < DebounceTicks =>
              /\ chgPuts[s] = 0
              /\ timer[s] = [val |-> lastChange[s], left |-> DebounceTicks - sinceChange[s],
                             src |-> "call"]
        /\ chgPuts[s] <= 1
        /\ chgPuts[s] = 1 => lastPut[s] = lastChange[s] /\ timer[s] = NoTimer
        /\ chgPuts[s] = 0 => timer[s].val = lastChange[s] /\ timer[s].left = DebounceTicks - sinceChange[s]

\* A burst of two value-changing calls has been followed by its one put.
Wit_C2 == \E s \in Sessions : burstCalls[s] >= 2 /\ chgPuts[s] = 1 /\ lastPut[s] = lastChange[s]

\* Deep structural equality: the same type, number and set of members.
DeepEqual(x, y) ==
    /\ x.t = y.t
    /\ x.n = y.n
    /\ {x.ks[i] : i \in DOMAIN x.ks} = {y.ks[i] : i \in DOMAIN y.ks}

\* C3 (as claimed): a setValue call whose resolved value is deep-equal to the
\* session's local value changes nothing; so a call that changes the local
\* value resolved to a value that is not deep-equal to it.
CE_C3 ==
    [][nSets' # nSets =>
         \A s \in Sessions : local'[s] # local[s] => ~DeepEqual(local'[s], local[s])]_vars

\* C4 (as claimed): however many sessions acquire an unset key with a default,
\* one put of the default is issued for it in total.
CE_C4 == nRare = 0 => \A c \in Cells : defaultPuts[c] <= 1

\* C5: notify has been called once for every put the store confirmed and never
\* for a put that failed, runs or waits; a handler has applied only values of
\* confirmed puts.
Thm_C5 ==
    /\ \A i \in TaskIds : notifyCount[i] = IF outcome[i] = "ok" THEN 1 ELSE 0
    /\ \A i \in delivered : outcome[i] = "ok"

\* A confirmed put was delivered to a handler and another put failed.
Wit_C5 ==
    /\ \E i \in delivered : outcome[i] = "ok"
    /\ \E i \in TaskIds : outcome[i] = "failed"

Ids(tasks) == [i \in DOMAIN tasks |-> tasks[i].id]
Ascending(ids) == \A i, j \in DOMAIN ids : i < j => ids[i] < ids[j]

\* C6: for each key at most one put is running, and the puts started so far,
\* followed by the waiting ones, are in the order their timers fired.
Thm_C6 ==
    \A k \in Keys :
        /\ Cardinality({r \in running : r.key = k}) <= 1
        /\ Ascending(startLog[k] \o Ids(chain[k]))
        /\ \A r \in running : r.key = k => r.id = startLog[k][Len(startLog[k])]

\* Puts of two keys run at the same time while a third waits behind one of them.
Wit_C6 ==
    /\ \E r1, r2 \in running : r1.key # r2.key
    /\ \E k \in Keys : chain[k] # <<>>

\* C7 (as claimed): when removeKey completes, the key's cache entry is gone and
\* every live session on the key holds its own default.
CE_C7 ==
    [][\A c \in Cells : ~removed[c] /\ removed'[c] =>
          /\ cache'[c[2]] = Undefined
          /\ \A s \in Live(c) : local'[s] = sdef[s]]_vars

\* Nobody uses the key: no live session, no timer, load or put.
Quiet(k) ==
    /\ \A s \in Sessions : skey[s] = k =>
          phase[s] # "live" /\ timer[s] = NoTimer /\ load[s] = "idle" /\ orphans[s] = 0
    /\ ~Busy(k)

\* C8 (as claimed): a session acquired after removeKey completed, with nobody
\* else using the key, starts from its own default.
CE_C8 ==
    [][\A s \in Sessions :
          phase[s] = "none" /\ phase'[s] = "live" /\ removed[Cell(s)] /\ Quiet(skey[s])
          => local'[s] = sdef[s]]_vars

\* C9: no step changes the local value, the syncing flag or the initialized
\* flag of a disposed session.
Thm_C9 ==
    [][\A s \in Sessions : phase[s] = "disposed" =>
          local'[s] = local[s] /\ isSyncing'[s] = isSyncing[s] /\ didInit'[s] = didInit[s]]_vars

\* A session was disposed while loading, and both a notify for its key and the
\* completion of its load came afterwards.
Wit_C9 == \E s \in Sessions : phase[s] = "disposed" /\ missed[s] = {"notify", "load"}

\* C10 (as claimed): a session whose load failed is READY.
CE_C10 ==
    \A s \in Sessions :
        phase[s] = "live" /\ loadFailed[s] /\ load[s] = "idle" => didInit[s] /\ ~isSyncing[s]

\* The put t fails in this step.
Fails(t) == outcome[t.id] = "running" /\ outcome'[t.id] = "failed"

Thm_C12 ==
    [][\A s \in Sessions : incs'[s].n > 0 =>
          /\ local'[s] = Num(incs'[s].base.n + incs'[s].n)
          /\ incs'[s].n > incs[s].n => cache'[skey[s]] = local'[s]]_vars

\* A session has made two updater calls in a row: its value is up by two and the
\* cache entry holds it.
Wit_C12 ==
    \E s \in Sessions :
        /\ incs[s].n = 2
        /\ local[s] = Num(incs[s].base.n + 2)
        /\ cache[skey[s]] = local[s]

\* The sessions of the other namespaces.
OtherNs(s) == {o \in Sessions : sns[o] # sns[s]}

\* C13 (as claimed): a value-changing setValue, a confirmed put or a completed
\* load of a session of another namespace changes neither the local value of a
\* live session nor the cache entry it reads.
CE_C13 ==
    [][\A s \in Sessions :
          /\ phase[s] = "live"
          /\ \/ nSets' # nSets /\ \E o \in OtherNs(s) : local'[o] # local[o]
             \/ \E t \in running : t.ns # sns[s] /\ outcome'[t.id] = "ok"
             \/ \E o \in OtherNs(s) : load[o] = "pending" /\ load'[o] = "idle"
          => local'[s] = local[s] /\ cache'[skey[s]] = cache[skey[s]]]_vars

\* C14 (as claimed): a value a session set while its load was pending, with no
\* setValue on the key since, is the session's local value, the cache entry and
\* the durable value once its load has resolved and nothing is pending.
CE_C14 ==
    \A s \in Sessions :
        phase[s] = "live" /\ loadWrite[s] # Undefined /\ Settled(Cell(s)) =>
            /\ local[s] = loadWrite[s]
            /\ cache[skey[s]] = loadWrite[s]
            /\ durable[Cell(s)] = loadWrite[s]

\* The put t is confirmed in this step.
Confirmed(t) == outcome[t.id] = "running" /\ outcome'[t.id] = "ok"

\* The writer of the put t has called setValue again since t's timer fired (its
\* debounce timer is pending for that call) and the cache entry holds the value
\* of that newer call.
NewerInCache(t) == timer[t.from].src = "call" /\ cache[t.key] = timer[t.from].val

\* C15 (as claimed): the confirmation of an older put does not move the cache
\* entry away from a newer locally written value.
CE_C15 ==
    [][\A t \in running : Confirmed(t) /\ NewerInCache(t) => cache'[t.key] = cache[t.key]]_vars

\* C16 (as claimed): the notification of a confirmed put does not modify the
\* local value of the session that wrote it.
CE_C16 == [][\A t \in running : Confirmed(t) => local'[t.from] = local[t.from]]_vars

RECURSIVE Total(_, _)
Total(f, S) == IF S = {} THEN 0 ELSE LET c == CHOOSE x \in S : TRUE IN f[c] + Total(f, S \ {c})

\* The puts issued so far for values passed to setValue, and the timers pending
\* for such values.
CallPuts == nextId - 1 - Total(defaultPuts, Cells)
CallTimers == {s \in Sessions : timer[s].src = "call"}

\* C17: the puts issued for other values than a default, together with the
\* timers pending for them, are no more than the setValue calls that changed
\* their caller's value: applying a notification schedules no write.
Thm_C17 == CallPuts + Cardinality(CallTimers) <= nChanged

\* A session applied a sibling's notification while its own load was pending
\* (only its handler clears isSyncing then), and nothing is pending on the key
\* afterwards but that load: every put issued was confirmed.
Wit_C17 ==
    \E s, w \in Sessions :
        /\ s # w /\ Cell(s) = Cell(w) /\ phase[s] = "live" /\ phase[w] = "live"
        /\ load[s] = "pending" /\ ~isSyncing[s] /\ load[w] = "idle"
        /\ local[s] = local[w] /\ durable[Cell(s)] = local[s]
        /\ nChanged >= 1 /\ CallPuts >= 1
        /\ \A i \in 1..(nextId - 1) : outcome[i] = "ok"
        /\ timer[s] = NoTimer /\ timer[w] = NoTimer /\ ~Busy(skey[s])

\* C18: when a put fails, no other operation's promise is rejected, the
\* operation waiting first behind it starts in the same step and the others keep
\* their order; and no operation ever waits with nothing running before it.
Thm_C18 ==
    [][/\ \A t \in running : Fails(t) =>
             /\ \A i \in TaskIds \ {t.id} : outcome'[i] = "failed" <=> outcome[i] = "failed"
             /\ chain[t.key] # <<>> =>
                   /\ Head(chain[t.key]) \in running'
                   /\ chain'[t.key] = Tail(chain[t.key])
             /\ \A k \in Keys \ {t.key} : chain'[k] = chain[k]
       /\ \A k \in Keys : chain'[k] # <<>> => \E r \in running' : r.key = k]_vars

\* A put that waited behind a put that failed has run and was confirmed.
Wit_C18 == \E i \in afterFail : outcome[i] = "ok"

\* C19 (as claimed): a key has one debounce timer: a setValue call of one
\* session resets the timer pending for the call of another session on the key,
\* so two sessions of one key never both have a timer pending for a call.
CE_C19 ==
    \A s, o \in Sessions :
        s # o /\ Cell(s) = Cell(o) => ~(timer[s].src = "call" /\ timer[o].src = "call")

\* C20: the step that disposes a session removes its handler from the registry
\* entry of its key and changes no other registry entry, no cache entry, no
\* durable value, no queue, no other session's local value and no timer: the
\* write the session had scheduled stays scheduled.
Thm_C20 ==
    [][\A s \in Sessions : phase[s] = "live" /\ phase'[s] = "disposed" =>
          /\ subs' = [subs EXCEPT ![skey[s]] = @ \ {s}]
          /\ cache' = cache /\ durable' = durable
          /\ chain' = chain /\ running' = running
          /\ \A o \in Sessions \ {s} : local'[o] = local[o]
          /\ timer' = timer]_vars

\* A write scheduled by a session was put after the session's disposal, was
\* confirmed and was applied by a remaining session's handler.
Wit_C20 == \E i \in latePuts \cap delivered : outcome[i] = "ok"

\* notify is called for the put t in this step.
Notifies(t) == notifyCount'[t.id] = notifyCount[t.id] + 1

\* C21 (as claimed): whenever notify is called for a put, the handler of every
\* live session registered for the key applies the value, also when one of the
\* handlers throws, and the put's promise resolves.
CE_C21 ==
    [][\A t \in running : Notifies(t) =>
          /\ \A s \in Appliers(t.key) : local'[s] = t.val
          /\ outcome'[t.id] = "ok"]_vars

\* C22 (as claimed): the handler of every live session is registered for the
\* session's key, from the session's first render to its disposal.
CE_C22 == \A s \in Sessions : phase[s] = "live" => s \in subs[skey[s]]

\* C23 (as claimed): when the store answers every request, every put handed to
\* a key's queue is started and its promise settles, resolved or rejected.
CE_C23 ==
    \A i \in TaskIds :
        outcome[i] \in {"waiting", "running"} ~> outcome[i] \in {"ok", "failed"}

====
